---- MODULE Spec2Model ----
(***************************************************************************)
(* Model of secrets-mcp-server: the tools/call handler registered by       *)
(* src/index.ts (stdio server) and by src/http-server.ts (HTTP server),    *)
(* acting on the operating system's credential store in the service scope  *)
(* SERVICE_NAME through @napi-rs/keyring (Entry, findCredentials).          *)
(*                                                                         *)
(* Texts are TLA+ strings, built exactly as the template literals of the   *)
(* source build them, so that two different outcomes can yield one text.   *)
(* A handler body holds no await: one tool call is one atomic step.        *)
(*                                                                         *)
(* Seven state machines share the handlers and the store:                  *)
(*   Spec       the tools/list and tools/call handlers, request by request *)
(*   SpecHttp   the HTTP server of src/http-server.ts: CORS, the session   *)
(*              of its one transport, and the handlers behind it           *)
(*   SpecStdio  the stdio server of src/index.ts: requests taken in by     *)
(*              method, and the responses written for them                 *)
(*   SpecMain   the stdio program from the start of its process: the       *)
(*              version read from package.json, main(), the two streams    *)
(*   SpecLines  the running stdio server on lines that fail and lines that *)
(*              succeed                                                    *)
(*   SpecConcurrent  the HTTP server under overlapping tool calls          *)
(*   SpecObserve     the handlers on secrets of any text                   *)
(***************************************************************************)
EXTENDS Integers, Sequences, FiniteSets, TLC

VARIABLES
    store,      \* the credential store in scope SERVICE_NAME: key -> entry
    hist,       \* history per key: the last successful store/delete on it
    request,    \* the request handled last
    response,   \* what the handler gave back for it: a result or an exception
    calls,      \* the adapter operations that request performed, in order
    before,     \* the entry under that request's key when the request arrived
    listed,     \* the keys the adapter enumerated for that request, in its order
    session,    \* the HTTP transport's session: whether initialized, and its id
    generated,  \* how many ids the HTTP transport's sessionIdGenerator has made
    held,       \* per HTTP client: the session id it took from a response header
    httpRequest,    \* the HTTP request served last
    httpResponse,   \* the HTTP response to it
    taken,      \* the JSON-RPC requests the stdio server took in, in order
    sent,       \* the lines it wrote to standard output, in order
    dropped,    \* how many input lines its transport could not parse
    packageJson,    \* ../package.json as the stdio program finds it
    process,    \* the stdio program's process: how far it got, and its VERSION
    errout,     \* the lines it wrote to the error stream, in order
    inflight,   \* the HTTP tool calls that arrived and whose handler has not run
    ran         \* the HTTP tool calls whose handler ran, in that order, with results

toolVars == <<store, hist, request, response, calls, before, listed>>
httpVars == <<session, generated, held, httpRequest, httpResponse>>
stdioVars == <<taken, sent, dropped>>
mainVars == <<packageJson, process, errout>>
concVars == <<inflight, ran>>
vars == <<store, hist, request, response, calls, before, listed,
          session, generated, held, httpRequest, httpResponse, taken, sent,
          dropped, packageJson, process, errout, inflight, ran>>

----------------------------------------------------------------------------
(* Bounds of the model.                                                    *)

\* how many of KeyPool's strings a request may give as key
MaxKeys == 2
\* how many of ValuePool's strings a request may give as value
MaxValues == 2
\* how many of MessagePool's strings the adapter may throw
MaxMessages == 3
\* how many HTTP clients talk to the HTTP server
MaxClients == 2
\* how many JSON-RPC requests the stdio client sends
MaxRequests == 3
\* how many tool calls the HTTP clients make that may overlap
MaxInFlight == 3

KeyPool == <<"api_token", "", "k1", "k2">>
ValuePool == <<"sk-123", "", "No secret found with key: api_token", "v2">>
MessagePool ==
    <<"Keyring locked", "Permission denied", "DBus error", "dbus: permission denied">>

Keys == {KeyPool[i] : i \in 1..MaxKeys}
Values == {ValuePool[i] : i \in 1..MaxValues}
Messages == {MessagePool[i] : i \in 1..MaxMessages}

ClientPool == <<"c1", "c2", "c3">>
Clients == {ClientPool[i] : i \in 1..MaxClients}

----------------------------------------------------------------------------
(* Strings.                                                                *)

\* s.includes(sub)
Includes(s, sub) ==
    \E i \in 1..(Len(s) - Len(sub) + 1) : SubSeq(s, i, i + Len(sub) - 1) = sub

----------------------------------------------------------------------------
(* JSON values a client can put in params.arguments.                       *)

JUndef == [t |-> "undefined", v |-> ""]
JNull == [t |-> "null", v |-> "null"]
JNum == [t |-> "number", v |-> "42"]
JStr(s) == [t |-> "string", v |-> s]

\* a key field is missing, of a wrong type, or a string
KeyInputs == {JUndef, JNum} \cup {JStr(k) : k \in Keys}

\* request.params.arguments: absent, or an object whose fields may be absent
ArgsAbsent == [t |-> "undefined", key |-> JUndef, value |-> JUndef]
ArgsObject(k, v) == [t |-> "object", key |-> k, value |-> v]

\* arguments of store_secret: absent, every valid pair, and objects with a
\* missing or wrong-typed field
ArgsInputs ==
    {ArgsAbsent}
        \cup {ArgsObject(JStr(k), JStr(v)) : k \in Keys, v \in Values}
        \cup {ArgsObject(k, v) : k \in {JUndef, JNum, JStr(KeyPool[1])},
                                 v \in {JUndef, JNull, JStr(ValuePool[1])}}

\* arguments of retrieve_secret and delete_secret: absent, {key} with the key
\* missing, wrong-typed or a string, and one object with an extra field
KeyArgsInputs ==
    {ArgsAbsent, ArgsObject(JStr(KeyPool[1]), JStr(ValuePool[1]))}
        \cup {ArgsObject(k, JUndef) : k \in KeyInputs}

\* arguments of the calls that look at none: absent, {}, or a full object
AnyArgsInputs ==
    {ArgsAbsent, ArgsObject(JUndef, JUndef), ArgsObject(JStr(KeyPool[1]), JStr(ValuePool[1]))}

----------------------------------------------------------------------------
(* Constants of the source.                                                *)

SERVICE_NAME == "secrets-mcp-server"

ToolNames == <<"store_secret", "retrieve_secret", "delete_secret", "list_secrets">>

\* names a client may send that are none of the four tools
OtherNames == {"unknown_tool", "Store_Secret", ""}

----------------------------------------------------------------------------
(* Argument validation: zod's z.object({...}).parse(args).                 *)
(* A schema is the sequence of its fields, each a z.string(): no minimum   *)
(* length, no default, unknown fields stripped.                            *)

StoreSecretSchema == <<"key", "value">>
RetrieveSecretSchema == <<"key">>
DeleteSecretSchema == <<"key">>

Field(args, f) == IF f = "key" THEN args.key ELSE args.value

\* one issue of a ZodError, as JSON.stringify writes it (indentation left out)
ZodIssue(expected, received, path) ==
    "{\"code\":\"invalid_type\",\"expected\":\"" \o expected
        \o "\",\"received\":\"" \o received
        \o "\",\"path\":[" \o (IF path = "" THEN "" ELSE "\"" \o path \o "\"")
        \o "],\"message\":\""
        \o (IF received = "undefined" THEN "Required"
            ELSE "Expected " \o expected \o ", received " \o received)
        \o "\"}"

RECURSIVE JoinStrings(_, _)
\* parts.join(sep)
JoinStrings(parts, sep) ==
    IF parts = <<>> THEN ""
    ELSE IF Len(parts) = 1 THEN parts[1]
    ELSE parts[1] \o sep \o JoinStrings(Tail(parts), sep)

\* the issues parse collects: all of them, in the order of the schema
ZodIssues(schema, args) ==
    IF args.t # "object" THEN <<ZodIssue("object", args.t, "")>>
    ELSE LET bad == SelectSeq(schema, LAMBDA f : Field(args, f).t # "string")
         IN [i \in 1..Len(bad) |-> ZodIssue("string", Field(args, bad[i]).t, bad[i])]

\* ZodError.message
ZodMessage(issues) == "[" \o JoinStrings(issues, ",") \o "]"

\* a slip for parse: fields declared z.string().default(""), so that a missing
\* field is filled in instead of reported
SchemaParseDefault(schema, args) ==
    LET fill(j) == IF j.t = "undefined" THEN JStr("") ELSE j
        filled == IF args.t # "object" THEN args
                  ELSE ArgsObject(fill(args.key), fill(args.value))
        issues == ZodIssues(schema, filled)
    IN IF issues = <<>>
       THEN [ok |-> TRUE, message |-> "", key |-> filled.key.v, value |-> filled.value.v]
       ELSE [ok |-> FALSE, message |-> ZodMessage(issues), key |-> "", value |-> ""]

\* schema.parse(args): the typed arguments, or the ZodError it throws
SchemaParse(schema, args) ==
    LET issues == ZodIssues(schema, args)
    IN IF issues = <<>>
       THEN [ok |-> TRUE, message |-> "", key |-> args.key.v, value |-> args.value.v]
       ELSE [ok |-> FALSE, message |-> ZodMessage(issues), key |-> "", value |-> ""]

----------------------------------------------------------------------------
(* The secret store adapter: @napi-rs/keyring as the handlers use it.      *)
(* Each adapter call either completes or throws; which one is up to the    *)
(* platform, so it is an input of the step. A throwing call changes        *)
(* nothing.                                                                *)

Absent == [present |-> FALSE, password |-> ""]
Present(v) == [present |-> TRUE, password |-> v]
Entries == {Absent} \cup {Present(v) : v \in Values}

Completes == [throws |-> FALSE, message |-> ""]
Throws(m) == [throws |-> TRUE, message |-> m]
AdapterOutcomes == {Completes} \cup {Throws(m) : m \in Messages}

\* a slip for setPassword: an existing password is extended, not replaced
SetPasswordAppend(st, key, value) ==
    [st EXCEPT ![key] = Present(IF @.present THEN @.password \o value ELSE value)]

\* entry.setPassword(value): always overwrites
SetPassword(st, key, value) == [st EXCEPT ![key] = Present(value)]

\* entry.getPassword(): the password, or null (Absent)
GetPassword(st, key) == st[key]

\* a slip for deletePassword: reports the deletion and leaves the entry
DeletePasswordKeeps(st, key) == [deleted |-> st[key].present, store |-> st]

\* entry.deletePassword(): whether an entry existed, and the store without it
DeletePassword(st, key) ==
    [deleted |-> st[key].present, store |-> [st EXCEPT ![key] = Absent]]

StoredKeys(st) == {k \in DOMAIN st : st[k].present}

\* the orders in which the platform may enumerate the stored keys
Enumerations(st) ==
    {o \in [1..Cardinality(StoredKeys(st)) -> StoredKeys(st)] :
        \A i, j \in DOMAIN o : i # j => o[i] # o[j]}

\* a slip for findCredentials: it stops after the first credential
FindCredentialsFirst(st, order) ==
    [i \in 1..(IF Len(order) = 0 THEN 0 ELSE 1) |->
        [account |-> order[i], password |-> st[order[i]].password]]

\* findCredentials(service): the credentials of the scope, in the order `order`
FindCredentials(st, order) ==
    [i \in 1..Len(order) |-> [account |-> order[i], password |-> st[order[i]].password]]

----------------------------------------------------------------------------
(* The tools/call handler (identical in src/index.ts and                   *)
(* src/http-server.ts).                                                    *)

\* { content: [{ type: "text", text }] }: isError is not set (FALSE here)
TextResult(text) == [content |-> <<[type |-> "text", text |-> text]>>, isError |-> FALSE]

\* { content: [{ type: "text", text }], isError: true }
ErrorResult(text) == [content |-> <<[type |-> "text", text |-> text]>>, isError |-> TRUE]

\* one adapter operation in the scope `service`, and what it threw, if it threw
AdapterCall(op, key, adp) ==
    [op |-> op, service |-> SERVICE_NAME, key |-> key, threw |-> adp.throws,
     message |-> adp.message]

\* a case of the switch returns a result ...
Return(result, st, made) ==
    [thrown |-> FALSE, caught |-> FALSE, message |-> "", result |-> result,
     store |-> st, calls |-> made]

\* ... or lets an exception leave it
Raise(message, st) ==
    [thrown |-> TRUE, caught |-> FALSE, message |-> message,
     result |-> [content |-> <<>>, isError |-> FALSE], store |-> st, calls |-> <<>>]

\* a slip for the case below: no try around the adapter call, so that its
\* exception leaves the case
StoreSecretNoTry(args, st, adp) ==
    LET parsed == SchemaParse(StoreSecretSchema, args)
        made == <<AdapterCall("set", parsed.key, adp)>>
    IN IF ~parsed.ok THEN Raise(parsed.message, st)
       ELSE IF adp.throws
       THEN [Raise(adp.message, st) EXCEPT !.calls = made]
       ELSE Return(TextResult("Successfully stored secret with key: " \o parsed.key),
                   SetPassword(st, parsed.key, parsed.value), made)

\* a slip for the case below: the entry is written from the raw arguments
\* before they are parsed
StoreSecretWriteFirst(args, st, adp) ==
    LET parsed == SchemaParse(StoreSecretSchema, args)
        made == <<AdapterCall("set", parsed.key, adp)>>
    IN IF ~parsed.ok
       THEN Raise(parsed.message,
                  IF args.key.t = "string" THEN SetPassword(st, args.key.v, args.value.v)
                  ELSE st)
       ELSE IF adp.throws
       THEN Return(ErrorResult("Failed to store secret: " \o adp.message), st, made)
       ELSE Return(TextResult("Successfully stored secret with key: " \o parsed.key),
                   SetPassword(st, parsed.key, parsed.value), made)

\* case "store_secret"
StoreSecret(args, st, adp) ==
    LET parsed == SchemaParse(StoreSecretSchema, args)
        made == <<AdapterCall("set", parsed.key, adp)>>
    IN IF ~parsed.ok THEN Raise(parsed.message, st)
       ELSE IF adp.throws
       THEN Return(ErrorResult("Failed to store secret: " \o adp.message), st, made)
       ELSE Return(TextResult("Successfully stored secret with key: " \o parsed.key),
                   SetPassword(st, parsed.key, parsed.value), made)

\* a slip for the test below: !secret, which also holds of the empty string
IsFalsy(secret) == ~secret.present \/ secret.password = ""

\* a slip for the test below: secret === undefined, which getPassword never gives
IsUndefined(secret) == FALSE

\* secret === null
IsNull(secret) == ~secret.present

\* a slip for the case below: a secret that was read is removed
RetrieveSecretConsumes(args, st, adp) ==
    LET parsed == SchemaParse(RetrieveSecretSchema, args)
        made == <<AdapterCall("get", parsed.key, adp)>>
        secret == GetPassword(st, parsed.key)
    IN IF ~parsed.ok THEN Raise(parsed.message, st)
       ELSE IF adp.throws
       THEN Return(ErrorResult("Failed to retrieve secret: " \o adp.message), st, made)
       ELSE IF IsNull(secret)
       THEN Return(TextResult("No secret found with key: " \o parsed.key), st, made)
       ELSE Return(TextResult(secret.password), DeletePassword(st, parsed.key).store, made)

\* case "retrieve_secret"
RetrieveSecret(args, st, adp) ==
    LET parsed == SchemaParse(RetrieveSecretSchema, args)
        made == <<AdapterCall("get", parsed.key, adp)>>
        secret == GetPassword(st, parsed.key)
    IN IF ~parsed.ok THEN Raise(parsed.message, st)
       ELSE IF adp.throws
       THEN Return(ErrorResult("Failed to retrieve secret: " \o adp.message), st, made)
       ELSE IF IsNull(secret)
       THEN Return(TextResult("No secret found with key: " \o parsed.key), st, made)
       ELSE Return(TextResult(secret.password), st, made)

\* a slip for the case below: the entry is read before it is deleted
DeleteSecretReadsFirst(args, st, adp) ==
    LET parsed == SchemaParse(DeleteSecretSchema, args)
        made == <<AdapterCall("get", parsed.key, adp), AdapterCall("delete", parsed.key, adp)>>
        del == DeletePassword(st, parsed.key)
    IN IF ~parsed.ok THEN Raise(parsed.message, st)
       ELSE IF adp.throws
       THEN Return(ErrorResult("Failed to delete secret: " \o adp.message), st,
                   <<made[1]>>)
       ELSE IF IsNull(GetPassword(st, parsed.key))
       THEN Return(TextResult("No secret found with key: " \o parsed.key), st, <<made[1]>>)
       ELSE Return(TextResult("Successfully deleted secret with key: " \o parsed.key),
                   del.store, made)

\* case "delete_secret"
DeleteSecret(args, st, adp) ==
    LET parsed == SchemaParse(DeleteSecretSchema, args)
        made == <<AdapterCall("delete", parsed.key, adp)>>
        del == DeletePassword(st, parsed.key)
    IN IF ~parsed.ok THEN Raise(parsed.message, st)
       ELSE IF adp.throws
       THEN Return(ErrorResult("Failed to delete secret: " \o adp.message), st, made)
       ELSE IF ~del.deleted
       THEN Return(TextResult("No secret found with key: " \o parsed.key), del.store, made)
       ELSE Return(TextResult("Successfully deleted secret with key: " \o parsed.key),
                   del.store, made)

PermissionText ==
    "Listing secrets is not available in this environment due to system permissions. This is a known limitation on some Linux systems with restrictive DBus/Secret Service configurations. Secrets can still be stored and retrieved individually by key."

\* a slip for the map below: the credential's password is listed with its key
AccountAndPassword(cred) == cred.account \o "=" \o cred.password

\* credentials.map(cred => cred.account)
AccountOf(cred) == cred.account

\* a slip for the test below: only the DBus message is recognised
IncludesDBusOnly(errorMessage) == Includes(errorMessage, "DBus")

\* errorMessage.includes('Permission denied') || errorMessage.includes('DBus')
IsPermissionRestricted(errorMessage) ==
    Includes(errorMessage, "Permission denied") \/ Includes(errorMessage, "DBus")

\* case "list_secrets": args are not looked at
ListSecrets(args, st, adp, order) ==
    LET made == <<AdapterCall("enumerate", "", adp)>>
        credentials == FindCredentials(st, order)
        keys == [i \in 1..Len(credentials) |-> AccountOf(credentials[i])]
        lines == [i \in 1..Len(keys) |-> "- " \o keys[i]]
    IN IF adp.throws
       THEN IF IsPermissionRestricted(adp.message)
            THEN Return(TextResult(PermissionText), st, made)
            ELSE Return(ErrorResult("Failed to list secrets: " \o adp.message), st, made)
       ELSE IF Len(keys) = 0
       THEN Return(TextResult("No secrets stored yet."), st, made)
       ELSE Return(TextResult("Stored secret keys:\n" \o JoinStrings(lines, "\n")), st, made)

\* a slip for the default case: the credentials are enumerated before the
\* name is rejected
UnknownToolLists(name, st) ==
    Return(ErrorResult("Unknown tool: " \o name), st,
           <<AdapterCall("enumerate", "", Completes)>>)

\* default:
UnknownTool(name, st) == Return(ErrorResult("Unknown tool: " \o name), st, <<>>)

\* a slip for the comparison below: tool names compared without regard to case
MatchesIgnoreCase(name, tool) ==
    \/ name = tool
    \/ name = "Store_Secret" /\ tool = "store_secret"

\* case "...": the switch compares with ===
Matches(name, tool) == name = tool

\* switch (name)
Switch(name, args, st, adp, order) ==
    CASE Matches(name, "store_secret") -> StoreSecret(args, st, adp)
      [] Matches(name, "retrieve_secret") -> RetrieveSecret(args, st, adp)
      [] Matches(name, "delete_secret") -> DeleteSecret(args, st, adp)
      [] Matches(name, "list_secrets") -> ListSecrets(args, st, adp, order)
      [] OTHER -> UnknownTool(name, st)

\* a slip for the handler: no outer try, so that a ZodError leaves the handler
CallToolNoCatch(name, args, st, adp, order) == Switch(name, args, st, adp, order)

\* the handler: try { switch } catch (error) { "Error: " + message }
CallTool(name, args, st, adp, order) ==
    LET out == Switch(name, args, st, adp, order)
    IN IF out.thrown
       THEN [thrown |-> FALSE, caught |-> TRUE, message |-> out.message,
             result |-> ErrorResult("Error: " \o out.message),
             store |-> out.store, calls |-> out.calls]
       ELSE out

\* a slip for the handlers below: the HTTP server's handler lacks the outer try
CallToolOnHttpBare(server, name, args, st, adp, order) ==
    IF server = "http"
    THEN CallToolNoCatch(name, args, st, adp, order)
    ELSE CallTool(name, args, st, adp, order)

\* the handler each server registers: the same text in both programs
CallToolOn(server, name, args, st, adp, order) == CallTool(name, args, st, adp, order)

----------------------------------------------------------------------------
(* The tools/list handler (identical in src/index.ts and                   *)
(* src/http-server.ts): a literal, built from nothing but constants.       *)

\* a property of an input schema: { type: "string", description }
StringProperty(name, description) ==
    [name |-> name, type |-> "string", description |-> description]

\* inputSchema: { type: "object", properties, required }; list_secrets has
\* no `required` member (<<>> here)
ObjectSchema(properties, required) ==
    [type |-> "object", properties |-> properties, required |-> required]

Servers == {"stdio", "http"}

ToolDescriptors ==
    << [name |-> "store_secret",
        description |-> "Securely store a secret using the operating system's native secret storage (Windows Credential Vault/DPAPI, macOS Keychain, or Linux Secret Service). The secret is encrypted and can only be accessed by the current user.",
        inputSchema |-> ObjectSchema(
            << StringProperty("key", "The unique identifier for the secret"),
               StringProperty("value", "The secret value to store") >>,
            <<"key", "value">>)],
       [name |-> "retrieve_secret",
        description |-> "Retrieve a previously stored secret from the operating system's native secret storage. Returns the decrypted secret value if it exists.",
        inputSchema |-> ObjectSchema(
            << StringProperty("key", "The unique identifier for the secret to retrieve") >>,
            <<"key">>)],
       [name |-> "delete_secret",
        description |-> "Delete a secret from the operating system's native secret storage. This permanently removes the secret.",
        inputSchema |-> ObjectSchema(
            << StringProperty("key", "The unique identifier for the secret to delete") >>,
            <<"key">>)],
       [name |-> "list_secrets",
        description |-> "List all secret keys stored by this MCP server. Note: This returns only the keys (identifiers), not the actual secret values. Use retrieve_secret to get the values.",
        inputSchema |-> ObjectSchema(<<>>, <<>>)] >>

\* a slip for the handler below: the HTTP server's copy lacks list_secrets
ListToolsHttpShort(server) ==
    [tools |-> IF server = "http" THEN SubSeq(ToolDescriptors, 1, 3) ELSE ToolDescriptors]

\* the handler of the server `server`: return { tools: [...] }
ListTools(server) == [tools |-> ToolDescriptors]

----------------------------------------------------------------------------
(* The HTTP server (src/http-server.ts, main): one Server and one          *)
(* StreamableHTTPServerTransport are created when the process starts, and  *)
(* the createServer callback hands every request other than OPTIONS to     *)
(* that one transport. The transport is the SDK's; it keeps one session    *)
(* (its sessionId), made by sessionIdGenerator when it is initialized.     *)
(* POST, OPTIONS and a verb the transport does not support are modelled;   *)
(* GET (the event stream) and DELETE (the client ends its session) are     *)
(* not.                                                                    *)

\* no MCP-Session-Id header
NoSessionId == ""

\* a session id no server issued
ForgedId == "not-a-session"

IdPool == <<"uuid-1", "uuid-2", "uuid-3", "uuid-4", "uuid-5", "uuid-6">>

\* sessionIdGenerator: () => randomUUID(), on its (n+1)-th call
RandomUUID(n) == IdPool[n + 1]

\* the transport before initialize
NoSession == [initialized |-> FALSE, id |-> NoSessionId]

\* res.setHeader("Access-Control-...", ...), set on every response
CorsHeaders ==
    [allowOrigin |-> "*",
     allowMethods |-> "GET, POST, DELETE, OPTIONS",
     allowHeaders |-> "Content-Type, MCP-Session-Id, MCP-Protocol-Version",
     exposeHeaders |-> "MCP-Session-Id"]

NoBody == [kind |-> "none", message |-> ""]
ResultBody == [kind |-> "result", message |-> ""]
ErrorBody(message) == [kind |-> "error", message |-> message]

\* an HTTP response: `transport` tells whether the request was handed to
\* transport.handleRequest, `sessionId` is the MCP-Session-Id header
Reply(status, sessionId, body, passed) ==
    [status |-> status, headers |-> CorsHeaders, sessionId |-> sessionId,
     body |-> body, transport |-> passed]

NoHttpRequest == [client |-> "", verb |-> "", method |-> "", sessionId |-> NoSessionId]
NoHttpResponse ==
    [status |-> 0, headers |-> [allowOrigin |-> "", allowMethods |-> "",
                                allowHeaders |-> "", exposeHeaders |-> ""],
     sessionId |-> NoSessionId, body |-> NoBody, transport |-> FALSE]

\* a slip for the test below: no request is taken for a preflight
IsPreflightNever(method) == FALSE

\* req.method === "OPTIONS"
IsPreflight(method) == method = "OPTIONS"

\* a slip for the transport below: every initialize makes a new session id,
\* which replaces the transport's session
InitializeAgain(ssn, n) ==
    [ok |-> TRUE, session |-> [initialized |-> TRUE, id |-> RandomUUID(n)],
     generated |-> n + 1, message |-> ""]

\* the transport on an initialize request: it makes its session id once and
\* rejects an initialize when it is initialized already
Initialize(ssn, n) ==
    IF ssn.initialized
    THEN [ok |-> FALSE, session |-> ssn, generated |-> n,
          message |-> "Invalid Request: Server already initialized"]
    ELSE [ok |-> TRUE, session |-> [initialized |-> TRUE, id |-> RandomUUID(n)],
          generated |-> n + 1, message |-> ""]

\* the transport on any other request: the MCP-Session-Id header must name
\* the transport's session
ValidateSession(ssn, sid) ==
    IF ~ssn.initialized
    THEN [ok |-> FALSE, status |-> 400, message |-> "Bad Request: Server not initialized"]
    ELSE IF sid = NoSessionId
    THEN [ok |-> FALSE, status |-> 400,
          message |-> "Bad Request: Mcp-Session-Id header is required"]
    ELSE IF sid # ssn.id
    THEN [ok |-> FALSE, status |-> 404, message |-> "Session not found"]
    ELSE [ok |-> TRUE, status |-> 200, message |-> ""]

----------------------------------------------------------------------------
(* The Server both programs create (new Server(...), setRequestHandler):   *)
(* the SDK's Server answers initialize and ping itself, hands tools/list   *)
(* and tools/call to the two handlers registered above, and answers a      *)
(* request of any other method with the JSON-RPC error "Method not found". *)
(* A response carries the id of its request.                               *)

\* the methods the Server has a handler for
HandledMethods == {"initialize", "ping", "tools/list", "tools/call"}

\* a method no handler is registered for
OtherMethods == {"resources/list"}

\* the ids the client gives its requests, in the order it sends them
RequestIds == <<7, 3, 5, 1, 4>>

MethodNotFound == "Method not found"

\* a slip for the test below: a request of any method is taken as handled
IsHandledAlways(method) == TRUE

\* whether the Server has a handler for `method`
IsHandled(method) == method \in HandledMethods

\* a request the server took in as its seq-th, with what handling it gave:
\* a result or an error, and the adapter calls made for it
Taken(seq, id, method, kind, message, made) ==
    [seq |-> seq, id |-> id, method |-> method, kind |-> kind,
     message |-> message, calls |-> made]

\* a slip for the response below: it is numbered by arrival
ResponseBySeq(req) == [id |-> req.seq, kind |-> req.kind, message |-> req.message]

\* the response to a request: { jsonrpc, id: request.id, result | error }
ResponseFor(req) == [id |-> req.id, kind |-> req.kind, message |-> req.message]

----------------------------------------------------------------------------
(* The stdio program from its start (src/index.ts): the module reads       *)
(* ../package.json for its VERSION when it is loaded, creates the Server   *)
(* with it, and main() connects the Server to a StdioServerTransport and   *)
(* writes a banner. The HTTP program gives its Server the version "1.0.0". *)

\* ../package.json: no such file, a file that is not JSON, or a JSON object
\* with some value, or none, as its version field
PackageMissing == [file |-> "missing", version |-> JUndef]
PackageInvalid == [file |-> "invalid", version |-> JUndef]
PackageObject(version) == [file |-> "object", version |-> version]

\* the package.json of the repository at release 1.0.0
PackageJson == PackageObject(JStr("1.0.0"))

\* the package.json files a process may find
PackageFiles ==
    {PackageMissing, PackageInvalid, PackageJson, PackageObject(JStr("1.1.0")),
     PackageObject(JStr("")), PackageObject(JNum), PackageObject(JUndef)}

\* JSON.parse(readFileSync(join(__dirname, "../package.json"), "utf-8"))
ReadPackageJson(pkg) ==
    CASE pkg.file = "missing" -> [threw |-> TRUE, message |-> "ENOENT: no such file or directory"]
      [] pkg.file = "invalid" -> [threw |-> TRUE, message |-> "SyntaxError: Unexpected token"]
      [] OTHER -> [threw |-> FALSE, message |-> ""]

\* const VERSION = packageJson.version
VERSION(pkg) == pkg.version

Banner == "Secrets MCP Server running on stdio"
FatalError(message) == "Fatal error: " \o message

\* the process before its module is loaded, ...
Created == [status |-> "created", version |-> JUndef, exitCode |-> 0]
\* ... with the module loaded and the Server created, ...
Loaded(version) == [status |-> "loaded", version |-> version, exitCode |-> 0]
\* ... with the Server connected to its transport, ...
Running(version) == [status |-> "running", version |-> version, exitCode |-> 0]
\* ... and ended with the exit code `code`
Exited(version, code) == [status |-> "exited", version |-> version, exitCode |-> code]

\* a slip for the identity below: the version is a placeholder in both programs
ServerInfoUnversioned(server, version) ==
    [name |-> "secrets-mcp-server", version |-> JStr("0.0.0")]

\* { name: "secrets-mcp-server", version } of new Server(...), in each program
ServerInfo(server, version) ==
    [name |-> "secrets-mcp-server",
     version |-> IF server = "stdio" THEN version ELSE JStr("1.0.0")]

\* { capabilities: { tools: {} } }
Capabilities == [tools |-> <<>>]

\* the result of initialize: the identity and the capabilities the Server
\* was created with
InitializeResult(server, version) ==
    [serverInfo |-> ServerInfo(server, version), capabilities |-> Capabilities]

----------------------------------------------------------------------------
(* The state machine: one step per request, on either server.              *)
(* Both servers use the same scope of the same credential store.           *)

NoRequest == [method |-> "none", name |-> "", args |-> ArgsAbsent]
NoResponse ==
    [thrown |-> FALSE, caught |-> FALSE, message |-> "",
     result |-> [content |-> <<>>, isError |-> FALSE]]

\* history of a key: the last store or delete that succeeded on it, if any
NoHist == [op |-> "none", value |-> ""]
Stored(v) == [op |-> "stored", value |-> v]
Deleted == [op |-> "deleted", value |-> ""]

\* the history after a tools/call `name` with arguments `args` returned `out`
NextHist(h, name, args, out) ==
    LET k == args.key.v
        text == out.result.content[1].text
    IN IF out.result.isError THEN h
       ELSE IF name = "store_secret"
       THEN [h EXCEPT ![k] = Stored(args.value.v)]
       ELSE IF name = "delete_secret"
                /\ text = "Successfully deleted secret with key: " \o k
       THEN [h EXCEPT ![k] = Deleted]
       ELSE h

\* no request has been made of either server
InitRequests ==
    /\ store = [k \in Keys |-> Absent]
    /\ hist = [k \in Keys |-> NoHist]
    /\ request = NoRequest
    /\ response = NoResponse
    /\ calls = <<>>
    /\ before = Absent
    /\ listed = <<>>
    /\ session = NoSession
    /\ generated = 0
    /\ held = [c \in Clients |-> NoSessionId]
    /\ httpRequest = NoHttpRequest
    /\ httpResponse = NoHttpResponse
    /\ taken = <<>>
    /\ sent = <<>>
    /\ dropped = 0
    /\ inflight = {}
    /\ ran = <<>>

\* both servers run, started from the repository's package.json
Init ==
    /\ InitRequests
    /\ packageJson = PackageJson
    /\ process = Running(VERSION(PackageJson))
    /\ errout = <<Banner>>

\* the step of the server's handler on tools/call {name, arguments: args}
HandleCallTool(server, name, args, adp, order) ==
    LET out == CallToolOn(server, name, args, store, adp, order)
    IN /\ request' = [method |-> "tools/call", name |-> name, args |-> args]
       /\ response' = [thrown |-> out.thrown, caught |-> out.caught,
                        message |-> out.message, result |-> out.result]
       /\ store' = out.store
       /\ calls' = out.calls
       /\ before' = IF out.calls # <<>> /\ out.calls[1].op # "enumerate"
                     THEN store[out.calls[1].key] ELSE Absent
       /\ listed' = order
       /\ hist' = NextHist(hist, name, args, out)

\* a server handles tools/call {name, arguments: args}
Handle(name, args, adp, order) ==
    /\ HandleCallTool("stdio", name, args, adp, order)
    /\ UNCHANGED httpVars
    /\ UNCHANGED stdioVars
    /\ UNCHANGED mainVars
    /\ UNCHANGED concVars

\* the handler's step on tools/list, in the server `server`
HandleListTools(server) ==
    /\ request' = [method |-> "tools/list", server |-> server]
    /\ response' = [thrown |-> FALSE, caught |-> FALSE, message |-> "",
                     result |-> ListTools(server)]
    /\ calls' = <<>>
    /\ before' = Absent
    /\ listed' = <<>>
    /\ UNCHANGED <<store, hist>>

\* the Server's step on initialize, in the server `server`
HandleInitialize(server) ==
    /\ request' = [method |-> "initialize", server |-> server]
    /\ response' = [thrown |-> FALSE, caught |-> FALSE, message |-> "",
                     result |-> InitializeResult(server, process.version)]
    /\ calls' = <<>>
    /\ before' = Absent
    /\ listed' = <<>>
    /\ UNCHANGED <<store, hist>>

\* the adapter's behaviour is an input of the calls that reach the adapter
OutcomesFor(schema, args) ==
    IF SchemaParse(schema, args).ok THEN AdapterOutcomes ELSE {Completes}

StoreSecretCall ==
    \E args \in ArgsInputs :
        \E adp \in OutcomesFor(StoreSecretSchema, args) :
            Handle("store_secret", args, adp, <<>>)

RetrieveSecretCall ==
    \E args \in KeyArgsInputs :
        \E adp \in OutcomesFor(RetrieveSecretSchema, args) :
            Handle("retrieve_secret", args, adp, <<>>)

DeleteSecretCall ==
    \E args \in KeyArgsInputs :
        \E adp \in OutcomesFor(DeleteSecretSchema, args) :
            Handle("delete_secret", args, adp, <<>>)

ListSecretsCall ==
    \E args \in AnyArgsInputs, adp \in AdapterOutcomes :
        \E order \in (IF adp.throws THEN {<<>>} ELSE Enumerations(store)) :
            Handle("list_secrets", args, adp, order)

UnknownToolCall ==
    \E name \in OtherNames, args \in AnyArgsInputs :
        Handle(name, args, Completes, <<>>)

ListToolsCall ==
    \E server \in Servers :
        /\ HandleListTools(server)
        /\ UNCHANGED httpVars
        /\ UNCHANGED stdioVars
        /\ UNCHANGED mainVars
        /\ UNCHANGED concVars

Next ==
    \/ StoreSecretCall
    \/ RetrieveSecretCall
    \/ DeleteSecretCall
    \/ ListSecretsCall
    \/ UnknownToolCall
    \/ ListToolsCall

Spec == Init /\ [][Next]_vars

----------------------------------------------------------------------------
(* The HTTP server as a state machine: one step per HTTP request.          *)

\* the client c gets `reply` to its request and keeps the session id of the
\* response, if it carries one, for its later requests
Exchange(c, verb, method, sid, reply) ==
    /\ httpRequest' = [client |-> c, verb |-> verb, method |-> method, sessionId |-> sid]
    /\ httpResponse' = reply
    /\ held' = IF reply.sessionId # NoSessionId
               THEN [held EXCEPT ![c] = reply.sessionId] ELSE held
    /\ UNCHANGED stdioVars
    /\ UNCHANGED mainVars
    /\ UNCHANGED concVars

\* transport.handleRequest(req, res); `served` is what the Server does with
\* a request the transport lets through
HandleRequest(c, verb, method, sid, served) ==
    IF verb # "POST"
    THEN /\ Exchange(c, verb, method, sid,
                     Reply(405, NoSessionId, ErrorBody("Method not allowed."), TRUE))
         /\ UNCHANGED <<session, generated>>
         /\ UNCHANGED toolVars
    ELSE IF method = "initialize"
    THEN LET init == Initialize(session, generated)
         IN /\ session' = init.session
            /\ generated' = init.generated
            /\ Exchange(c, verb, method, sid,
                        IF init.ok
                        THEN Reply(200, init.session.id, ResultBody, TRUE)
                        ELSE Reply(400, NoSessionId, ErrorBody(init.message), TRUE))
            /\ IF init.ok THEN served ELSE UNCHANGED toolVars
    ELSE LET valid == ValidateSession(session, sid)
         IN /\ UNCHANGED <<session, generated>>
            /\ IF valid.ok
               THEN /\ served
                    /\ Exchange(c, verb, method, sid,
                                Reply(200, session.id, ResultBody, TRUE))
               ELSE /\ Exchange(c, verb, method, sid,
                                Reply(valid.status, NoSessionId,
                                      ErrorBody(valid.message), TRUE))
                    /\ UNCHANGED toolVars

\* the createServer callback
OnRequest(c, verb, method, sid, served) ==
    IF IsPreflight(verb)
    THEN /\ Exchange(c, verb, method, sid, Reply(204, NoSessionId, NoBody, FALSE))
         /\ UNCHANGED <<session, generated>>
         /\ UNCHANGED toolVars
    ELSE HandleRequest(c, verb, method, sid, served)

\* the MCP-Session-Id header a client may send: none, the id it holds, or
\* an id that was never issued
SessionHeaders(c) == {NoSessionId, held[c], ForgedId}

\* the tool calls the HTTP clients make: on one key, with valid arguments
HttpCalls ==
    {[name |-> "store_secret", args |-> ArgsObject(JStr(KeyPool[1]), JStr(ValuePool[1]))],
     [name |-> "retrieve_secret", args |-> ArgsObject(JStr(KeyPool[1]), JUndef)],
     [name |-> "delete_secret", args |-> ArgsObject(JStr(KeyPool[1]), JUndef)],
     [name |-> "list_secrets", args |-> ArgsAbsent]}

HttpOptions ==
    \E c \in Clients : \E sid \in SessionHeaders(c) :
        OnRequest(c, "OPTIONS", "", sid, FALSE)

HttpInitialize ==
    \E c \in Clients :
        OnRequest(c, "POST", "initialize", NoSessionId, HandleInitialize("http"))

HttpToolsList ==
    \E c \in Clients : \E sid \in SessionHeaders(c) :
        OnRequest(c, "POST", "tools/list", sid, HandleListTools("http"))

HttpToolsCall ==
    \E c \in Clients : \E sid \in SessionHeaders(c) :
        \E call \in HttpCalls :
            \E order \in (IF call.name = "list_secrets"
                           THEN Enumerations(store) ELSE {<<>>}) :
                OnRequest(c, "POST", "tools/call", sid,
                          HandleCallTool("http", call.name, call.args, Completes, order))

HttpUnsupported ==
    \E c \in Clients : \E sid \in SessionHeaders(c) :
        OnRequest(c, "PUT", "", sid, FALSE)

NextHttp ==
    \/ HttpOptions
    \/ HttpInitialize
    \/ HttpToolsList
    \/ HttpToolsCall
    \/ HttpUnsupported

SpecHttp == Init /\ [][NextHttp]_vars

----------------------------------------------------------------------------
(* The stdio server as a state machine: a step takes a request in and      *)
(* handles it, or writes the response of a request handled before. The     *)
(* handlers run in the order of arrival; the order in which the responses  *)
(* are written is left open.                                               *)

\* the Server on a request {id, method}; `served` is the handler's step
OnMessage(id, method, served) ==
    /\ process.status = "running"
    /\ Len(taken) + dropped < MaxRequests
    /\ IF IsHandled(method)
       THEN /\ served
            /\ taken' = Append(taken,
                    Taken(Len(taken) + 1, id, method,
                          IF response'.thrown THEN "error" ELSE "result",
                          IF response'.thrown THEN response'.message ELSE "",
                          IF method = "tools/call" THEN calls' ELSE <<>>))
       ELSE /\ UNCHANGED toolVars
            /\ taken' = Append(taken,
                    Taken(Len(taken) + 1, id, method, "error", MethodNotFound, <<>>))
    /\ UNCHANGED <<sent, dropped>>
    /\ UNCHANGED httpVars
    /\ UNCHANGED mainVars
    /\ UNCHANGED concVars

\* the id of the next request the client sends
NextId == RequestIds[Len(taken) + 1]

StdioInitialize == OnMessage(NextId, "initialize", HandleInitialize("stdio"))

StdioPing == OnMessage(NextId, "ping", UNCHANGED toolVars)

StdioToolsList == OnMessage(NextId, "tools/list", HandleListTools("stdio"))

StdioToolsCall ==
    \E call \in HttpCalls :
        \E order \in (IF call.name = "list_secrets"
                       THEN Enumerations(store) ELSE {<<>>}) :
            OnMessage(NextId, "tools/call",
                      HandleCallTool("stdio", call.name, call.args, Completes, order))

StdioOtherMethod ==
    \E method \in OtherMethods : OnMessage(NextId, method, UNCHANGED toolVars)

\* the requests handled and not yet answered
Outstanding == {i \in 1..Len(taken) : \A j \in 1..Len(sent) : sent[j].seq # i}

\* the transport writes the response of a handled request
StdioSend ==
    \E i \in Outstanding :
        /\ sent' = Append(sent, [seq |-> i, response |-> ResponseFor(taken[i])])
        /\ UNCHANGED <<taken, dropped>>
        /\ UNCHANGED toolVars
        /\ UNCHANGED httpVars
        /\ UNCHANGED mainVars
        /\ UNCHANGED concVars

NextStdio ==
    \/ StdioInitialize
    \/ StdioPing
    \/ StdioToolsList
    \/ StdioToolsCall
    \/ StdioOtherMethod
    \/ StdioSend

SpecStdio == Init /\ [][NextStdio]_vars

----------------------------------------------------------------------------
(* The stdio program as a state machine from the start of its process:     *)
(* the module is loaded, main() runs, and then requests are answered. The  *)
(* HTTP program runs beside it and answers initialize.                     *)

\* a slip for the write below: console.log, which writes to standard output
ConsoleLog(text) ==
    /\ sent' = Append(sent, [seq |-> 0, text |-> text])
    /\ errout' = errout

\* console.error(text)
ConsoleError(text) ==
    /\ errout' = Append(errout, text)
    /\ sent' = sent

\* the module is evaluated: an exception of its top level ends the process
\* with exit code 1 and the exception on the error stream
LoadModule ==
    LET read == ReadPackageJson(packageJson)
    IN /\ process = Created
       /\ IF read.threw
          THEN /\ process' = Exited(JUndef, 1)
               /\ errout' = Append(errout, "Uncaught " \o read.message)
          ELSE /\ process' = Loaded(VERSION(packageJson))
               /\ errout' = errout
       /\ UNCHANGED <<taken, sent, dropped, packageJson>>
       /\ UNCHANGED toolVars
       /\ UNCHANGED httpVars
       /\ UNCHANGED concVars

\* main().catch(...): server.connect(transport) resolves or rejects
Main ==
    \E connects \in BOOLEAN :
        /\ process.status = "loaded"
        /\ IF connects
           THEN /\ process' = Running(process.version)
                /\ ConsoleError(Banner)
           ELSE /\ process' = Exited(process.version, 1)
                /\ ConsoleError(FatalError("connect failed"))
        /\ UNCHANGED <<taken, dropped, packageJson>>
        /\ UNCHANGED toolVars
        /\ UNCHANGED httpVars
        /\ UNCHANGED concVars

\* the process may find any package.json when it starts
InitMain ==
    /\ InitRequests
    /\ packageJson \in PackageFiles
    /\ process = Created
    /\ errout = <<>>

NextMain ==
    \/ LoadModule
    \/ Main
    \/ StdioInitialize
    \/ StdioToolsList
    \/ StdioSend
    \/ HttpInitialize

SpecMain == InitMain /\ [][NextMain]_vars

----------------------------------------------------------------------------
(* The running stdio server as a state machine of the lines that arrive on *)
(* its standard input, well-formed or not, each handled in one step: tool  *)
(* calls that succeed and tool calls that fail, requests of an unknown     *)
(* method, and lines that are not JSON.                                    *)

\* the tool calls the stdio client makes here: those above, one with a
\* missing field and one of an unknown tool
StdioCalls ==
    HttpCalls \cup
        {[name |-> "store_secret", args |-> ArgsObject(JStr(KeyPool[1]), JUndef)],
         [name |-> "unknown_tool", args |-> ArgsObject(JUndef, JUndef)]}

\* the adapter completes, or throws, in the calls that reach it
StdioOutcomes(call) ==
    IF call.name \in {"store_secret", "retrieve_secret", "delete_secret", "list_secrets"}
          /\ (call.name = "list_secrets" \/ SchemaParse(RetrieveSecretSchema, call.args).ok)
          /\ (call.name # "store_secret" \/ SchemaParse(StoreSecretSchema, call.args).ok)
    THEN {Completes, Throws(MessagePool[1])}
    ELSE {Completes}

StdioAnyToolsCall ==
    \E call \in StdioCalls :
        \E adp \in StdioOutcomes(call) :
            \E order \in (IF call.name = "list_secrets" /\ ~adp.throws
                           THEN Enumerations(store) ELSE {<<>>}) :
                OnMessage(NextId, "tools/call",
                          HandleCallTool("stdio", call.name, call.args, adp, order))

\* a line that is not JSON arrives: the transport cannot parse it, no
\* request comes of it and no handler runs
StdioMalformed ==
    /\ process.status = "running"
    /\ Len(taken) + dropped < MaxRequests
    /\ dropped' = dropped + 1
    /\ UNCHANGED <<taken, sent>>
    /\ UNCHANGED toolVars
    /\ UNCHANGED httpVars
    /\ UNCHANGED mainVars
    /\ UNCHANGED concVars

NextLines ==
    \/ StdioInitialize
    \/ StdioToolsList
    \/ StdioAnyToolsCall
    \/ StdioOtherMethod
    \/ StdioMalformed

SpecLines == Init /\ [][NextLines]_vars

----------------------------------------------------------------------------
(* The HTTP server under overlapping tool calls. The createServer callback *)
(* awaits the transport, which reads the request's body before the handler *)
(* is called: between the arrival of a request and the run of its handler  *)
(* other requests arrive and other handlers run. The handler's body holds  *)
(* no await and the adapter's calls are synchronous: a handler runs from   *)
(* its first statement to its return in one step.                          *)

\* the tool calls that overlap: stores, retrievals and deletions on two keys
ConcurrentCalls ==
    {[name |-> "store_secret", args |-> ArgsObject(JStr(KeyPool[1]), JStr(ValuePool[1]))],
     [name |-> "store_secret", args |-> ArgsObject(JStr(KeyPool[1]), JStr(ValuePool[2]))],
     [name |-> "retrieve_secret", args |-> ArgsObject(JStr(KeyPool[1]), JUndef)],
     [name |-> "delete_secret", args |-> ArgsObject(JStr(KeyPool[1]), JUndef)],
     [name |-> "store_secret", args |-> ArgsObject(JStr(KeyPool[2]), JStr(ValuePool[1]))],
     [name |-> "retrieve_secret", args |-> ArgsObject(JStr(KeyPool[2]), JUndef)]}

\* how many tool calls have arrived
Arrivals == Len(ran) + Cardinality(inflight)

\* a slip for the store below: the handler acts on the store as it was when
\* its request arrived
StoreSeenOnArrival(req) == req.seen

\* the store a handler acts on: the store as it is when the handler runs
HandlerStore(req) == store

\* a tool call arrives: the callback is entered and awaits the transport
HttpArrive ==
    \E call \in ConcurrentCalls :
        /\ Arrivals < MaxInFlight
        /\ inflight' = inflight \cup {[n |-> Arrivals + 1, call |-> call, seen |-> store]}
        /\ UNCHANGED ran
        /\ UNCHANGED toolVars
        /\ UNCHANGED httpVars
        /\ UNCHANGED stdioVars
        /\ UNCHANGED mainVars

\* the handler of a tool call that arrived runs
HttpRun ==
    \E req \in inflight :
        LET out == CallToolOn("http", req.call.name, req.call.args, HandlerStore(req),
                              Completes, <<>>)
        IN /\ store' = out.store
           /\ request' = [method |-> "tools/call", name |-> req.call.name,
                          args |-> req.call.args]
           /\ response' = [thrown |-> out.thrown, caught |-> out.caught,
                            message |-> out.message, result |-> out.result]
           /\ calls' = out.calls
           /\ ran' = Append(ran, [n |-> req.n, call |-> req.call, result |-> out.result])
           /\ inflight' = inflight \ {req}
           /\ UNCHANGED <<hist, before, listed>>
           /\ UNCHANGED httpVars
           /\ UNCHANGED stdioVars
           /\ UNCHANGED mainVars

NextConcurrent ==
    \/ HttpArrive
    \/ HttpRun

SpecConcurrent == Init /\ [][NextConcurrent]_vars

----------------------------------------------------------------------------
(* The handlers with secrets of any text: among the values stored are the  *)
(* texts the handlers themselves give back when a key holds no secret.     *)

\* the text of retrieve_secret for a key that holds no secret
AbsenceText(k) == "No secret found with key: " \o k

\* the values stored here: those of Values and the absence texts of the keys
ObservedValues == Values \cup {AbsenceText(k) : k \in Keys}

ObserveStore ==
    \E k \in Keys, v \in ObservedValues :
        Handle("store_secret", ArgsObject(JStr(k), JStr(v)), Completes, <<>>)

ObserveRetrieve ==
    \E k \in Keys : Handle("retrieve_secret", ArgsObject(JStr(k), JUndef), Completes, <<>>)

ObserveDelete ==
    \E k \in Keys : Handle("delete_secret", ArgsObject(JStr(k), JUndef), Completes, <<>>)

NextObserve ==
    \/ ObserveStore
    \/ ObserveRetrieve
    \/ ObserveDelete

SpecObserve == Init /\ [][NextObserve]_vars

----------------------------------------------------------------------------
(* Vocabulary of the properties.                                           *)

\* the request handled last is tools/call `name` with {key: k} as arguments
IsKeyCall(name, k) ==
    /\ request.method = "tools/call"
    /\ request.name = name
    /\ request.args.t = "object"
    /\ request.args.key = JStr(k)

\* the request handled last is tools/call store_secret {key: k, value: v}
IsStoreCall(k, v) == IsKeyCall("store_secret", k) /\ request.args.value = JStr(v)

\* that request made its adapter call, and the call completed
AdapterCompleted == calls # <<>> /\ ~calls[1].threw

\* that request made its adapter call, and the call threw
AdapterThrew == calls # <<>> /\ calls[1].threw

\* the same three, of the request a step handles
IsKeyCallNext(name, k) ==
    /\ request'.method = "tools/call"
    /\ request'.name = name
    /\ request'.args.t = "object"
    /\ request'.args.key = JStr(k)

IsStoreCallNext(k, v) == IsKeyCallNext("store_secret", k) /\ request'.args.value = JStr(v)

AdapterCompletedNext == calls' # <<>> /\ ~calls'[1].threw

----------------------------------------------------------------------------
(* C1. Round trip: once store_secret(k, v) has returned its success result *)
(* and no later store_secret or delete_secret on k has succeeded, a        *)
(* retrieve_secret(k) whose adapter call completes returns a result that   *)
(* is not flagged as an error and whose single text block is exactly v,    *)
(* the empty string included. (A throwing adapter call is the case of C9.) *)

C1_RoundTrip ==
    \A k \in Keys, v \in Values :
        (IsKeyCall("retrieve_secret", k) /\ AdapterCompleted /\ hist[k] = Stored(v))
            => /\ ~response.thrown
               /\ response.result = TextResult(v)

\* an empty value was stored under a key and read back
C1_Witness ==
    \E k \in Keys :
        /\ IsKeyCall("retrieve_secret", k) /\ AdapterCompleted
        /\ hist[k] = Stored("")
        /\ response.result.content = <<[type |-> "text", text |-> ""]>>

----------------------------------------------------------------------------
(* C2. store_secret always overwrites: a store_secret(k, v) whose adapter   *)
(* call completes returns "Successfully stored secret with key: k" and     *)
(* leaves exactly v under k, whatever was there (last write wins, neither  *)
(* the old value nor a concatenation); when k already held v the store is  *)
(* the same after the call as before it; and retrieve_secret(k) returns    *)
(* exactly the value the store holds under k.                              *)

C2_Overwrite ==
    [][\A k \in Keys, v \in Values :
        /\ (IsStoreCallNext(k, v) /\ AdapterCompletedNext)
              => /\ response'.result
                        = TextResult("Successfully stored secret with key: " \o k)
                 /\ store'[k] = Present(v)
                 /\ (store[k] = Present(v) => store' = store)
        /\ (IsKeyCallNext("retrieve_secret", k) /\ AdapterCompletedNext
                /\ store[k] = Present(v))
              => response'.result = TextResult(v)
      ]_vars

\* a key that held one value was stored again with another value
C2_Witness ==
    \E k \in Keys, v1, v2 \in Values :
        /\ v1 # v2
        /\ IsStoreCall(k, v2) /\ AdapterCompleted
        /\ before = Present(v1)
        /\ store[k] = Present(v2)

----------------------------------------------------------------------------
(* C3. delete_secret is effective immediately: on a key that is present, a *)
(* delete_secret(k) whose adapter call completes returns the non-error     *)
(* text "Successfully deleted secret with key: k"; and from a successful   *)
(* delete of k until the next successful store_secret on k, every          *)
(* retrieve_secret(k) and delete_secret(k) whose adapter call completes    *)
(* returns the non-error text "No secret found with key: k".               *)

C3_DeleteEffective ==
    [][\A k \in Keys :
        /\ (store[k].present /\ IsKeyCallNext("delete_secret", k) /\ AdapterCompletedNext)
              => response'.result
                     = TextResult("Successfully deleted secret with key: " \o k)
        /\ (hist[k] = Deleted /\ AdapterCompletedNext
                /\ (IsKeyCallNext("retrieve_secret", k) \/ IsKeyCallNext("delete_secret", k)))
              => response'.result = TextResult("No secret found with key: " \o k)
      ]_vars

\* a key was deleted, and a further delete_secret on it found nothing
C3_Witness ==
    \E k \in Keys :
        /\ hist[k] = Deleted
        /\ IsKeyCall("delete_secret", k) /\ AdapterCompleted
        /\ response.result = TextResult("No secret found with key: " \o k)

----------------------------------------------------------------------------
(* C4. Absence is not an error: retrieve_secret(k) and delete_secret(k) on *)
(* a key that is not in the store (never stored, or deleted), when the     *)
(* adapter call completes, return a result that the handler returns (no    *)
(* exception leaves it), with the text "No secret found with key: k" and   *)
(* isError not set.                                                        *)

C4_AbsenceNotError ==
    \A k \in Keys :
        (/\ IsKeyCall("retrieve_secret", k) \/ IsKeyCall("delete_secret", k)
         /\ AdapterCompleted
         /\ ~before.present)
            => /\ ~response.thrown
               /\ ~response.result.isError
               /\ response.result = TextResult("No secret found with key: " \o k)

\* a key that was never stored was looked up
C4_Witness ==
    \E k \in Keys :
        /\ hist[k] = NoHist
        /\ IsKeyCall("retrieve_secret", k) /\ AdapterCompleted
        /\ response.result = TextResult("No secret found with key: " \o k)

----------------------------------------------------------------------------
(* Validation, as the tool descriptors state it (the `required` lists).    *)

ToolNameSet == {ToolNames[i] : i \in 1..Len(ToolNames)}

KeyedTools == {"store_secret", "retrieve_secret", "delete_secret"}

RequiredFields(name) == IF name = "store_secret" THEN {"key", "value"} ELSE {"key"}

\* the required fields that request gives no string for
BadFields == {f \in RequiredFields(request.name) : Field(request.args, f).t # "string"}

\* the request handled last is a tools/call of a keyed tool with arguments that
\* are absent, or lack a required field, or give it another type than string
IsInvalidCall ==
    /\ request.method = "tools/call"
    /\ request.name \in KeyedTools
    /\ (request.args.t # "object" \/ BadFields # {})

----------------------------------------------------------------------------
(* C5. A validation failure is reported as an error result: a tools/call   *)
(* of store_secret, retrieve_secret or delete_secret whose arguments are   *)
(* absent, lack a required field or give it a non-string type returns a    *)
(* result with isError = true and one text block that contains "Error" and *)
(* names every offending field; no default is substituted: the adapter is  *)
(* not called.                                                             *)

C5_ValidationError ==
    IsInvalidCall
        => /\ ~response.thrown
           /\ response.result.isError
           /\ Len(response.result.content) = 1
           /\ Includes(response.result.content[1].text, "Error")
           /\ request.args.t = "object"
                => \A f \in BadFields :
                      Includes(response.result.content[1].text,
                               "\"path\":[\"" \o f \o "\"]")
           /\ calls = <<>>

\* store_secret was called with only `key`
C5_Witness ==
    /\ IsKeyCall("store_secret", KeyPool[1])
    /\ request.args.value = JUndef
    /\ response.result.isError
    /\ Includes(response.result.content[1].text, "\"path\":[\"value\"]")

----------------------------------------------------------------------------
(* C6. Keys must be non-empty: store_secret, retrieve_secret and           *)
(* delete_secret called with key = "" are rejected by argument validation, *)
(* so that the empty key never reaches the adapter. The schemas are        *)
(* z.string() without a minimum length: the property fails.                *)

C6_EmptyKeyRejected ==
    \A name \in KeyedTools :
        IsKeyCall(name, "")
            => /\ response.result.isError
               /\ calls = <<>>

----------------------------------------------------------------------------
(* C7. Unknown tool: a tools/call whose name is not exactly one of the     *)
(* four tool names returns, for any arguments, a result with isError =     *)
(* true and the text "Unknown tool: {name}"; no exception leaves the       *)
(* handler, no adapter call is made and the store stays as it was.         *)

C7_UnknownTool ==
    [][(request'.method = "tools/call" /\ request'.name \notin ToolNameSet)
          => /\ ~response'.thrown
             /\ ~response'.caught
             /\ response'.result = ErrorResult("Unknown tool: " \o request'.name)
             /\ calls' = <<>>
             /\ store' = store
      ]_vars

\* a name that differs from a tool name only in case, with full arguments
C7_Witness ==
    /\ request.method = "tools/call"
    /\ request.name = "Store_Secret"
    /\ request.args = ArgsObject(JStr(KeyPool[1]), JStr(ValuePool[1]))
    /\ response.result = ErrorResult("Unknown tool: Store_Secret")

----------------------------------------------------------------------------
(* C8. The tool-call handler is total: for every tool name, arguments and  *)
(* adapter behaviour it returns a result with at least one block, all of   *)
(* them text blocks, and no exception leaves it; an exception raised       *)
(* outside a case's own try (a validation failure) yields isError = true   *)
(* with the text "Error: {message}".                                       *)

C8_Total ==
    request.method = "tools/call"
        => /\ ~response.thrown
           /\ Len(response.result.content) >= 1
           /\ \A i \in 1..Len(response.result.content) :
                 response.result.content[i].type = "text"
           /\ IsInvalidCall => response.caught
           /\ response.caught
                => response.result = ErrorResult("Error: " \o response.message)

\* a call without arguments, caught by the outer catch
C8_Witness ==
    /\ request.method = "tools/call"
    /\ request.args = ArgsAbsent
    /\ response.caught
    /\ response.result.isError

----------------------------------------------------------------------------
(* C9. Adapter failures degrade to error results per operation: when the   *)
(* adapter call of store_secret, retrieve_secret or delete_secret throws   *)
(* with message m, the result has isError = true and the text "Failed to   *)
(* store secret: m", "Failed to retrieve secret: m" or "Failed to delete   *)
(* secret: m", the prefix of the failing operation; it is not the generic  *)
(* "Error: m" of the outer catch.                                          *)

FailurePrefix(name) ==
    CASE name = "store_secret" -> "Failed to store secret: "
      [] name = "retrieve_secret" -> "Failed to retrieve secret: "
      [] name = "delete_secret" -> "Failed to delete secret: "

C9_AdapterFailure ==
    (request.method = "tools/call" /\ request.name \in KeyedTools /\ AdapterThrew)
        => /\ ~response.thrown
           /\ ~response.caught
           /\ response.result
                 = ErrorResult(FailurePrefix(request.name) \o calls[1].message)

\* the adapter threw in a store_secret
C9_Witness ==
    /\ request.method = "tools/call"
    /\ request.name = "store_secret"
    /\ AdapterThrew
    /\ response.result = ErrorResult("Failed to store secret: " \o MessagePool[1])

----------------------------------------------------------------------------
(* C11. list_secrets reflects the store: after any sequence of successful  *)
(* store_secret and delete_secret calls, a list_secrets whose enumeration  *)
(* completes returns "No secrets stored yet." exactly when no key is       *)
(* currently stored (the last successful call on every key, if any, was a  *)
(* delete), and otherwise "Stored secret keys:" followed by one "- {key}"  *)
(* line for each currently stored key, each key once, no deleted key, in   *)
(* the order in which the adapter enumerated them.                         *)

IsListCall == request.method = "tools/call" /\ request.name = "list_secrets"

CurrentlyStored == {k \in Keys : hist[k].op = "stored"}

KeyLines(order) == [i \in 1..Len(order) |-> "- " \o order[i]]

C11_ListReflectsStore ==
    (IsListCall /\ AdapterCompleted)
        => /\ ~response.thrown
           /\ ~response.result.isError
           /\ Len(response.result.content) = 1
           /\ (response.result.content[1].text = "No secrets stored yet.")
                  <=> (CurrentlyStored = {})
           /\ {listed[i] : i \in 1..Len(listed)} = CurrentlyStored
           /\ Len(listed) = Cardinality(CurrentlyStored)
           /\ CurrentlyStored # {}
                  => response.result.content[1].text
                        = "Stored secret keys:\n" \o JoinStrings(KeyLines(listed), "\n")

\* two keys are stored and both are listed, in the adapter's order
C11_Witness ==
    /\ IsListCall /\ AdapterCompleted
    /\ Cardinality(CurrentlyStored) = 2
    /\ Len(listed) = 2
    /\ response.result.content[1].text
          = "Stored secret keys:\n- " \o listed[1] \o "\n- " \o listed[2]

\* a key was stored, then deleted, and the list is empty again
C11_EmptyAgain ==
    /\ IsListCall /\ AdapterCompleted
    /\ \E k \in Keys : hist[k] = Deleted
    /\ CurrentlyStored = {}
    /\ response.result.content[1].text = "No secrets stored yet."

----------------------------------------------------------------------------
(* C13. list_secrets degrades gracefully on permission restrictions: when  *)
(* the adapter's enumeration throws with a message containing              *)
(* "Permission denied" or "DBus", the result is a text that is not flagged *)
(* as an error and says that listing is not available in this environment  *)
(* while secrets can still be stored and retrieved individually; when it   *)
(* throws with any other message m, the result has isError = true and the  *)
(* text "Failed to list secrets: m".                                       *)

C13_ListDegrades ==
    \A m \in Messages :
        (IsListCall /\ AdapterThrew /\ calls[1].message = m)
            => /\ ~response.thrown
               /\ Len(response.result.content) = 1
               /\ IF Includes(m, "Permission denied") \/ Includes(m, "DBus")
                  THEN /\ ~response.result.isError
                       /\ Includes(response.result.content[1].text,
                                   "Listing secrets is not available in this environment")
                       /\ Includes(response.result.content[1].text,
                                   "Secrets can still be stored and retrieved individually")
                  ELSE response.result = ErrorResult("Failed to list secrets: " \o m)

\* the enumeration threw "Permission denied" and the result is no error
C13_Witness ==
    /\ IsListCall /\ AdapterThrew
    /\ calls[1].message = "Permission denied"
    /\ ~response.result.isError
    /\ response.result.content[1].text = PermissionText

\* the enumeration threw a DBus message and the result is no error
C13_DBus ==
    /\ IsListCall /\ AdapterThrew
    /\ calls[1].message = "DBus error"
    /\ response.result = TextResult(PermissionText)

\* the enumeration threw another message and the result is an error
C13_Other ==
    /\ IsListCall /\ AdapterThrew
    /\ response.result = ErrorResult("Failed to list secrets: Keyring locked")

----------------------------------------------------------------------------
(* C14. tools/list is static: in every reachable state of the server and   *)
(* the secret store, on both servers, tools/list returns exactly four      *)
(* descriptors named store_secret, retrieve_secret, delete_secret,         *)
(* list_secrets in that order, each with a non-empty description and an    *)
(* input schema of type "object", and it makes no adapter call.            *)

IsListTools(server) == request.method = "tools/list" /\ request.server = server

C14_ToolsListStatic ==
    \A server \in Servers :
        IsListTools(server)
            => /\ ~response.thrown
               /\ Len(response.result.tools) = 4
               /\ [i \in 1..4 |-> response.result.tools[i].name]
                     = <<"store_secret", "retrieve_secret", "delete_secret", "list_secrets">>
               /\ \A i \in 1..4 :
                     /\ response.result.tools[i].description # ""
                     /\ response.result.tools[i].inputSchema.type = "object"
               /\ calls = <<>>

\* the HTTP server lists its tools while the store holds a secret
C14_Witness ==
    /\ IsListTools("http")
    /\ \E k \in Keys : store[k].present
    /\ Len(response.result.tools) = 4

----------------------------------------------------------------------------
(* C12. list_secrets returns only keys, never values: for two store states *)
(* that hold the same set of keys, enumerated in the same order, but       *)
(* different values, list_secrets returns identical results. Stated of     *)
(* the store a list_secrets call ran on (list_secrets leaves it as it      *)
(* was) and of every other store with the same keys: the handler gives     *)
(* the same result on both, for the same enumeration order and adapter     *)
(* outcome.                                                                *)

\* the stores that hold the keys of `st`, under any values
SameKeys(st) == {other \in [Keys -> Entries] : StoredKeys(other) = StoredKeys(st)}

\* the adapter outcome of the request handled last
LastOutcome == IF calls[1].threw THEN Throws(calls[1].message) ELSE Completes

C12_ListOnlyKeys ==
    (IsListCall /\ calls # <<>>)
        => \A other \in SameKeys(store) :
              CallTool("list_secrets", request.args, other, LastOutcome, listed).result
                  = response.result

\* a list of a store that holds a secret, which another store with the same
\* key holds with another value
C12_Witness ==
    /\ IsListCall /\ AdapterCompleted
    /\ \E k \in Keys :
          /\ store[k] = Present("sk-123")
          /\ \E other \in SameKeys(store) : other[k] = Present("")
    /\ Len(listed) > 0
    /\ response.result.content[1].text # "No secrets stored yet."

----------------------------------------------------------------------------
(* C17. Per-client HTTP sessions: every client that sends an initialize    *)
(* request without a session id to the running HTTP server is answered     *)
(* successfully with a freshly generated session id in the MCP-Session-Id  *)
(* response header, distinct from every id issued before (here: from the   *)
(* ids the other clients hold), so that several clients can each hold      *)
(* their own session at the same time.                                     *)

IsInitialize ==
    /\ httpRequest.verb = "POST"
    /\ httpRequest.method = "initialize"
    /\ httpRequest.sessionId = NoSessionId

C17_PerClientSessions ==
    IsInitialize
        => /\ httpResponse.status = 200
           /\ httpResponse.body.kind = "result"
           /\ httpResponse.sessionId # NoSessionId
           /\ \A d \in Clients \ {httpRequest.client} :
                 held[d] # httpResponse.sessionId

----------------------------------------------------------------------------
(* C18. HTTP session persistence: the first initialize response carries an *)
(* MCP-Session-Id header; every later tools/list and tools/call request    *)
(* that names a session id the server issued is served by the same         *)
(* session, with a result; and a session, once issued, is never expired,   *)
(* evicted or replaced while the server process runs.                      *)

\* the session ids the server has issued so far
Issued == {RandomUUID(i - 1) : i \in 1..generated}

IsServedMethod == httpRequest.method \in {"tools/list", "tools/call"}

\* a step answers the first initialize, and keeps the session and the ids
\* issued before it
SessionKept ==
    /\ (~session.initialized /\ httpRequest'.method = "initialize")
          => httpResponse'.status = 200
    /\ session.initialized => session' = session
    /\ Issued \subseteq {RandomUUID(i - 1) : i \in 1..generated'}

----------------------------------------------------------------------------
(* C19. CORS preflight has no side effects: an HTTP OPTIONS request is     *)
(* answered with status 204, an empty body and the headers                 *)
(* Access-Control-Allow-Origin: *, Access-Control-Allow-Methods containing *)
(* GET, POST, DELETE, OPTIONS and Access-Control-Allow-Headers containing  *)
(* Content-Type, MCP-Session-Id, MCP-Protocol-Version; it is not passed to *)
(* the MCP transport, creates or changes no session, and leaves the secret *)
(* store unchanged, whatever state the server is in.                       *)

C19_PreflightNoEffect ==
    [][httpRequest'.verb = "OPTIONS"
        => /\ httpResponse'.status = 204
           /\ httpResponse'.body = NoBody
           /\ httpResponse'.sessionId = NoSessionId
           /\ httpResponse'.headers.allowOrigin = "*"
           /\ \A m \in {"GET", "POST", "DELETE", "OPTIONS"} :
                 Includes(httpResponse'.headers.allowMethods, m)
           /\ \A h \in {"Content-Type", "MCP-Session-Id", "MCP-Protocol-Version"} :
                 Includes(httpResponse'.headers.allowHeaders, h)
           /\ ~httpResponse'.transport
           /\ session' = session /\ generated' = generated /\ held' = held
           /\ store' = store /\ calls' = calls
      ]_vars

\* a preflight is answered while a session exists and a secret is stored
C19_Witness ==
    /\ httpRequest.verb = "OPTIONS"
    /\ httpResponse.status = 204
    /\ ~httpResponse.transport
    /\ session.initialized
    /\ store[KeyPool[1]].present

----------------------------------------------------------------------------
(* C15. Response correlation: every response the transport writes carries  *)
(* the id of a request that was received and not yet answered, is either a *)
(* result or an error, as the handling of that request came out, and no    *)
(* request is answered more than once; also when the responses are written *)
(* in another order than the requests arrived.                             *)

\* the response a step writes
Written == sent'[Len(sent')].response

Correlated ==
    Len(sent') > Len(sent)
        => /\ \E i \in Outstanding :
                 /\ Written.id = taken[i].id
                 /\ Written.kind = taken[i].kind
           /\ Written.kind \in {"result", "error"}
           /\ \A j \in 1..Len(sent) : sent[j].response.id # Written.id

C15_ResponseCorrelation == [][Correlated]_vars

\* two requests are answered in the reverse order of their arrival, one with
\* a result and one with an error, each under its own id
C15_Witness ==
    /\ Len(sent) = 2
    /\ sent[1].seq = 2 /\ sent[2].seq = 1
    /\ sent[1].response.id = taken[2].id
    /\ sent[2].response.id = taken[1].id
    /\ sent[1].response.kind = "error"
    /\ sent[2].response.kind = "result"

----------------------------------------------------------------------------
(* C16. Unknown method: a JSON-RPC request whose method is not one of      *)
(* initialize, tools/list, tools/call is answered with the JSON-RPC error  *)
(* "Method not found" (not a result), makes no adapter call and leaves the *)
(* secret store unchanged.                                                 *)

\* the request a step takes in
Arrived == taken'[Len(taken')]

\* a step that takes in a request of a method outside `known` gives it the
\* error "Method not found", calls no adapter and leaves the store alone
RejectsOutside(known) ==
    (Len(taken') > Len(taken) /\ Arrived.method \notin known)
        => /\ Arrived.kind = "error"
           /\ Arrived.message = "Method not found"
           /\ Arrived.calls = <<>>
           /\ store' = store
           /\ calls' = calls

----------------------------------------------------------------------------
(* C21. Failures are isolated: a step of the running stdio server that     *)
(* ends in a protocol error (a line that is not JSON, a request of an      *)
(* unknown method) or in an error-flagged result (the adapter threw, the   *)
(* arguments were invalid, the tool is unknown) leaves the process         *)
(* running and the store as it was, so that every later request            *)
(* (initialize and every tool call, whatever the adapter does in it;       *)
(* the answer to tools/list is a literal) is answered as it would have     *)
(* been answered without that step.                                        *)

\* the step takes in a line that ends in a protocol error or in an
\* error-flagged result
Failed ==
    \/ dropped' > dropped
    \/ /\ Len(taken') > Len(taken)
       /\ \/ Arrived.kind = "error"
          \/ Arrived.method = "tools/call" /\ response'.result.isError

\* every request is answered after the step as it is answered before it
SameAnswers ==
    /\ InitializeResult("stdio", process'.version) = InitializeResult("stdio", process.version)
    /\ \A call \in StdioCalls :
          \A adp \in StdioOutcomes(call) :
             /\ Enumerations(store') = Enumerations(store)
             /\ \A order \in Enumerations(store) :
                   CallTool(call.name, call.args, store', adp, order)
                       = CallTool(call.name, call.args, store, adp, order)

Isolated ==
    Failed => /\ process' = process
              /\ process'.status = "running"
              /\ store' = store
              /\ SameAnswers

C21_FailuresIsolated == [][Isolated]_vars

\* a secret is stored, a request of an unknown method is rejected, and the
\* secret is then retrieved as it was stored
C21_Witness ==
    /\ Len(taken) = 3
    /\ taken[1].method = "tools/call" /\ taken[1].calls # <<>>
    /\ taken[1].calls[1].op = "set" /\ ~taken[1].calls[1].threw
    /\ taken[2].kind = "error" /\ taken[2].message = MethodNotFound
    /\ request.method = "tools/call" /\ request.name = "retrieve_secret"
    /\ response.result = TextResult(ValuePool[1])
    /\ process.status = "running"

----------------------------------------------------------------------------
(* C22. initialize returns the static server identity and touches          *)
(* nothing: with the repository's package.json, a step that answers        *)
(* initialize, on the stdio server or on the HTTP server, gives serverInfo *)
(* with name "secrets-mcp-server" and version "1.0.0" and the tools        *)
(* capability, makes no adapter call and leaves the store unchanged.       *)

\* the step answers an initialize request on `server`
InitializeStep(server) ==
    IF server = "stdio"
    THEN Len(taken') > Len(taken) /\ Arrived.method = "initialize"
    ELSE /\ httpRequest'.method = "initialize"
         /\ ~session.initialized /\ session'.initialized

StaticIdentity ==
    \A server \in Servers :
        (packageJson = PackageJson /\ InitializeStep(server))
            => /\ request' = [method |-> "initialize", server |-> server]
               /\ ~response'.thrown
               /\ response'.result.serverInfo
                     = [name |-> "secrets-mcp-server", version |-> JStr("1.0.0")]
               /\ DOMAIN response'.result.capabilities = {"tools"}
               /\ calls' = <<>>
               /\ store' = store

C22_InitializeStatic == [][StaticIdentity]_vars

\* the stdio server, started from the repository's package.json, has
\* answered initialize, and so has the HTTP server
C22_Witness ==
    /\ packageJson = PackageJson
    /\ process.status = "running"
    /\ \E i \in 1..Len(taken) : taken[i].method = "initialize" /\ taken[i].kind = "result"
    /\ session.initialized
    /\ httpResponse.status = 200
    /\ request.method = "initialize"
    /\ response.result.serverInfo.version = JStr("1.0.0")

----------------------------------------------------------------------------
(* C23. Stdio output is protocol-only: every line the stdio program has    *)
(* written to standard output is the JSON-RPC response, a result or an     *)
(* error, to a request it took in; the banner "Secrets MCP Server running  *)
(* on stdio" and the diagnostics of a fatal error are on the error stream  *)
(* and on no line of standard output; a process that ended before it ran   *)
(* has written nothing to standard output.                                 *)

\* the line is a JSON-RPC response to a request taken in
IsResponseLine(line) ==
    /\ DOMAIN line = {"seq", "response"}
    /\ line.seq \in 1..Len(taken)
    /\ DOMAIN line.response = {"id", "kind", "message"}
    /\ line.response.id = taken[line.seq].id
    /\ line.response.kind \in {"result", "error"}

\* the lines of the error stream
ErrorLines == {errout[i] : i \in 1..Len(errout)}

C23_StdoutProtocolOnly ==
    /\ \A j \in 1..Len(sent) : IsResponseLine(sent[j])
    /\ process.status = "running" => errout = <<Banner>>
    /\ process.status = "exited"
          => /\ sent = <<>>
             /\ Len(errout) = 1
             /\ \/ Includes(errout[1], "Fatal error:")
                \/ Includes(errout[1], "Uncaught")
    /\ process.status \in {"created", "loaded"} => sent = <<>> /\ errout = <<>>

\* the banner is on the error stream and two responses are on standard
\* output
C23_Witness ==
    /\ process.status = "running"
    /\ Banner \in ErrorLines
    /\ Len(sent) = 2
    /\ sent[1].response.kind = "result"
    /\ sent[2].response.kind = "result"

----------------------------------------------------------------------------
(* C24. Version loading falls back instead of failing: once the module is  *)
(* loaded, VERSION is the version field of package.json when that is a     *)
(* non-empty string; when package.json is missing or not JSON, or its      *)
(* version field is absent, empty or not a string, VERSION is "0.0.0" and  *)
(* a line with "[VERSION] Warning" is on the error stream; and the process *)
(* does not end while it loads.                                            *)

\* package.json holds a non-empty string as its version
HasVersion(pkg) ==
    /\ pkg.file = "object"
    /\ pkg.version.t = "string"
    /\ pkg.version.v # ""

C24_VersionFallback ==
    process.status # "created"
        => /\ process.exitCode = 0 \/ Includes(errout[Len(errout)], "Fatal error:")
           /\ IF HasVersion(packageJson)
              THEN process.version = packageJson.version
              ELSE /\ process.version = JStr("0.0.0")
                   /\ \E line \in ErrorLines : Includes(line, "[VERSION] Warning")

\* package.json has no version field: the Server runs without a version
C24_NoFallback ==
    /\ packageJson = PackageObject(JUndef)
    /\ process = Running(JUndef)
    /\ errout = <<Banner>>

\* package.json is missing: the process has ended while loading
C24_LoadFails ==
    /\ packageJson = PackageMissing
    /\ process = Exited(JUndef, 1)

----------------------------------------------------------------------------
(* C25. Rejected calls leave the store untouched: a tools/call that ends   *)
(* in a validation failure (the exception of parse, caught by the          *)
(* handler) or in "Unknown tool" has made no adapter call, and the stored  *)
(* keys and every stored value are the same after it as before it.         *)

\* the step handles a tools/call that ends in a validation failure or in
\* "Unknown tool"
RejectedNext ==
    /\ request'.method = "tools/call"
    /\ \/ response'.caught
       \/ response'.result = ErrorResult("Unknown tool: " \o request'.name)

Untouched ==
    RejectedNext
        => /\ calls' = <<>>
           /\ StoredKeys(store') = StoredKeys(store)
           /\ \A k \in Keys : store'[k] = store[k]

C25_RejectedUntouched == [][Untouched]_vars

\* store_secret without a value is rejected while the key holds a secret
C25_Witness ==
    /\ request.method = "tools/call"
    /\ request.name = "store_secret"
    /\ request.args = ArgsObject(JStr(KeyPool[1]), JUndef)
    /\ response.caught
    /\ response.result.isError
    /\ calls = <<>>
    /\ store[KeyPool[1]] = Present(ValuePool[1])

----------------------------------------------------------------------------
(* C26. Keys are independent, also under concurrency: a handler of         *)
(* store_secret, retrieve_secret or delete_secret on key k leaves every    *)
(* other key's entry as it was; with tool calls overlapping on the HTTP    *)
(* server, the store and every call's result are those of the calls made   *)
(* one after the other in the order their handlers ran; and two calls on   *)
(* distinct keys give the same results and the same store in both orders.  *)

\* the step runs a handler on key k and leaves the other keys alone
KeyIndependent ==
    Len(ran') > Len(ran)
        => \A k \in Keys \ {ran'[Len(ran')].call.args.key.v} : store'[k] = store[k]

\* the calls ran[i], ran[i+1], ..., made one after the other from the store
\* st, give the results recorded and end in the current store
RECURSIVE SerialFrom(_, _)
SerialFrom(st, i) ==
    IF i > Len(ran) THEN st = store
    ELSE LET out == CallTool(ran[i].call.name, ran[i].call.args, st, Completes, <<>>)
         IN /\ out.result = ran[i].result
            /\ SerialFrom(out.store, i + 1)

Serializable == SerialFrom([k \in Keys |-> Absent], 1)

\* in the current store, calls on distinct keys commute
Commute ==
    \A a, b \in ConcurrentCalls :
        a.args.key.v # b.args.key.v
            => LET a1 == CallTool(a.name, a.args, store, Completes, <<>>)
                   b2 == CallTool(b.name, b.args, a1.store, Completes, <<>>)
                   b1 == CallTool(b.name, b.args, store, Completes, <<>>)
                   a2 == CallTool(a.name, a.args, b1.store, Completes, <<>>)
               IN /\ a1.result = a2.result
                  /\ b1.result = b2.result
                  /\ b2.store = a2.store

C26_KeysIndependent ==
    /\ []Serializable
    /\ []Commute
    /\ [][KeyIndependent]_vars

\* two calls on distinct keys overlapped and their handlers ran in the
\* reverse order of arrival, while a third call is in flight
C26_Witness ==
    /\ Len(ran) = 2
    /\ ran[1].n = 2 /\ ran[2].n = 1
    /\ ran[1].call.args.key.v # ran[2].call.args.key.v
    /\ ran[1].call.name = "store_secret"
    /\ ran[2].call.name = "store_secret"
    /\ store[KeyPool[1]].present /\ store[KeyPool[2]].present
    /\ inflight # {}

----------------------------------------------------------------------------
(* C27. One adapter call per tool call: a tools/call of one of the four    *)
(* tools with arguments its schema accepts has made exactly one adapter    *)
(* operation: set for store_secret, get for retrieve_secret, delete for    *)
(* delete_secret, each on the key given, and enumerate for list_secrets;   *)
(* always in the service scope "secrets-mcp-server"; nothing is read       *)
(* before it is written and nothing is tried twice, whether the operation  *)
(* completes or throws.                                                    *)

\* the adapter operation of each tool
OperationOf(name) ==
    CASE name = "store_secret" -> "set"
      [] name = "retrieve_secret" -> "get"
      [] name = "delete_secret" -> "delete"
      [] name = "list_secrets" -> "enumerate"

C27_OneAdapterCall ==
    (request.method = "tools/call" /\ request.name \in ToolNameSet /\ ~IsInvalidCall)
        => /\ Len(calls) = 1
           /\ calls[1].op = OperationOf(request.name)
           /\ calls[1].service = "secrets-mcp-server"
           /\ calls[1].key = IF request.name = "list_secrets" THEN ""
                             ELSE request.args.key.v

\* delete_secret has removed a stored secret with the one call to delete
C27_Witness ==
    /\ request.method = "tools/call"
    /\ request.name = "delete_secret"
    /\ request.args.key = JStr(KeyPool[1])
    /\ before = Present(ValuePool[1])
    /\ ~store[KeyPool[1]].present
    /\ calls = <<AdapterCall("delete", KeyPool[1], Completes)>>

----------------------------------------------------------------------------
(* C28. The two transports share one dispatcher behaviour: in every store, *)
(* for every tool name, arguments, adapter outcome and enumeration order,  *)
(* the tools/call handler of the stdio server and that of the HTTP server  *)
(* return the same Tool-Call Result, make the same adapter calls and leave *)
(* the same store; a tool call the HTTP server has served has the result   *)
(* and the effect the stdio server's handler gives it; and both tools/list *)
(* handlers return the same descriptors.                                   *)

\* the tool calls compared: those that succeed, fail, and overlap
ComparedCalls ==
    StdioCalls \cup ConcurrentCalls
        \cup {[name |-> n, args |-> ArgsAbsent] : n \in ToolNameSet \cup OtherNames}

SameDispatcher ==
    /\ ListTools("stdio") = ListTools("http")
    /\ \A call \in ComparedCalls :
          \A adp \in StdioOutcomes(call) :
             \A order \in Enumerations(store) :
                CallToolOn("stdio", call.name, call.args, store, adp, order)
                    = CallToolOn("http", call.name, call.args, store, adp, order)

\* the HTTP server serves a tool call as the stdio server's handler would
ServedAlike ==
    (httpRequest'.method = "tools/call" /\ httpResponse'.status = 200)
        => LET out == CallToolOn("stdio", request'.name, request'.args, store,
                                 Completes, listed')
           IN /\ response'.result = out.result
              /\ store' = out.store
              /\ calls' = out.calls

----------------------------------------------------------------------------
(* C29. Read operations are read-only: a step that handles tools/list, or  *)
(* a tools/call of retrieve_secret or list_secrets, or a tools/call of     *)
(* delete_secret on a key that holds no secret, leaves the stored keys and *)
(* every stored value as they were, whether the call succeeds, finds       *)
(* nothing, is rejected, or the adapter throws.                            *)

\* the step handles a request that only reads
ReadsOnlyNext ==
    \/ request'.method = "tools/list"
    \/ /\ request'.method = "tools/call"
       /\ \/ request'.name \in {"retrieve_secret", "list_secrets"}
          \/ /\ request'.name = "delete_secret"
             /\ request'.args.key.t = "string"
             /\ request'.args.key.v \in Keys
             /\ ~store[request'.args.key.v].present

ReadOnly ==
    ReadsOnlyNext
        => /\ StoredKeys(store') = StoredKeys(store)
           /\ \A k \in Keys : store'[k] = store[k]

C29_ReadOnly == [][ReadOnly]_vars

\* retrieve_secret has returned a stored secret, which is still stored
C29_Witness ==
    /\ request.method = "tools/call"
    /\ request.name = "retrieve_secret"
    /\ request.args.key = JStr(KeyPool[1])
    /\ before = Present(ValuePool[1])
    /\ response.result = TextResult(ValuePool[1])
    /\ store[KeyPool[1]] = Present(ValuePool[1])

\* delete_secret on a key that holds no secret, beside a key that holds one
C29_DeleteAbsent ==
    /\ request.method = "tools/call"
    /\ request.name = "delete_secret"
    /\ before = Absent
    /\ calls # <<>> /\ ~calls[1].threw
    /\ response.result = TextResult("No secret found with key: " \o request.args.key.v)
    /\ StoredKeys(store) # {}

----------------------------------------------------------------------------
(* C30. Presence is observable from retrieve_secret: when retrieve_secret  *)
(* on key k has returned while k held a value v, its Tool-Call Result      *)
(* differs from the result retrieve_secret gives for k in the same store   *)
(* without k's entry.                                                      *)

\* the result of the request handled last, had its key held no secret
ResultIfAbsent ==
    CallTool(request.name, request.args,
             [store EXCEPT ![request.args.key.v] = Absent], Completes, <<>>).result

\* retrieve_secret has returned for a key that held a secret
RetrievedPresent ==
    /\ \E k \in Keys : IsKeyCall("retrieve_secret", k)
    /\ AdapterCompleted
    /\ before.present

C30_PresenceObservable == RetrievedPresent => response.result # ResultIfAbsent

(* C30, amended. The same for every value v other than the text            *)
(* "No secret found with key: " followed by k: a secret whose value is     *)
(* that text is returned as the very result of a missing key.              *)

C30_PresenceObservableButAbsenceText ==
    (RetrievedPresent /\ before.password # AbsenceText(request.args.key.v))
        => response.result # ResultIfAbsent

\* a secret is retrieved whose result differs from that of a missing key,
\* beside a key whose value is an absence text
C30_Witness ==
    /\ RetrievedPresent
    /\ before = Present(ValuePool[1])
    /\ response.result = TextResult(ValuePool[1])
    /\ ResultIfAbsent = TextResult(AbsenceText(request.args.key.v))
    /\ \E k \in Keys : store[k] = Present(AbsenceText(k))

\* the secret retrieved is the absence text of its key: the result is that
\* of a missing key
C30_Indistinguishable ==
    /\ RetrievedPresent
    /\ before = Present(AbsenceText(request.args.key.v))
    /\ response.result = ResultIfAbsent

====
